---------------------------- MODULE Spec2Model ----------------------------
(***************************************************************************)
(* A model of tap-postgres (src/tap_postgres/client.py):                   *)
(*   - PostgresLogBasedStream.get_records / consume, the logical           *)
(*     replication consumer, as a state machine over the generator's       *)
(*     positions (before start, in the loop, suspended at a yield, done,   *)
(*     aborted by an exception);                                           *)
(*   - the pure parts (patched_conform, the type mapper, the query         *)
(*     planner, key detection, the log-based schema) as operators applied  *)
(*     to inputs drawn from bounded sets.                                  *)
(***************************************************************************)
EXTENDS Integers, Sequences, FiniteSets, TLC

VARIABLES
    pc,             \* position of the get_records generator
    bookmark,       \* get_starting_replication_key_value(): None or an LSN
    wal,            \* messages the server has put on the replication socket
    read,           \* how many of them read_message() has returned
    stopped,        \* the server delivers nothing from now on
    yielded,        \* the records yielded so far, in order
    calls,          \* calls made on the replication connection and its cursor
    error,          \* the exception that ended the run, "none" otherwise
    sinceFeedback,  \* now() - cursor.feedback_timestamp, whole seconds
    sinceMessage,   \* seconds since read_message() last returned a message
    conform_call,   \* patched_conform: the arguments (elem, property_schema)
    conform_result, \* patched_conform: the value returned, NotCalled before
    query_pc,       \* position of the PostgresStream.get_records generator
    stream,         \* the PostgresStream: context, replication key, bookmark,
                    \* table content, ABORT_AT_RECORD_COUNT, max_record_count
    query,          \* the SELECT built by get_records
    result,         \* rows of the executed query not fetched yet
    emitted,        \* rows yielded by PostgresStream.get_records, in order
    schema_call,    \* PostgresLogBasedStream.schema: the catalog entry's schema
    schema_result,  \* PostgresLogBasedStream.schema: the schema returned
    type_call,      \* to_jsonschema_type: sql_type and config dates_as_string
    type_result,    \* to_jsonschema_type: the fragment returned
    keys_call,      \* discover_catalog_entry: what the inspector reflects
    keys_result     \* discover_catalog_entry: key_properties

replVars == <<pc, bookmark, wal, read, stopped, yielded, calls, error,
              sinceFeedback, sinceMessage>>
conformVars == <<conform_call, conform_result>>
queryVars == <<query_pc, stream, query, result, emitted>>

schemaVars == <<schema_call, schema_result>>
typeVars == <<type_call, type_result>>
keysVars == <<keys_call, keys_result>>

vars == <<replVars, conformVars, queryVars, schemaVars, typeVars, keysVars>>

\* What the steps of one component leave alone.
notRepl == <<conformVars, queryVars, schemaVars, typeVars, keysVars>>
notConform == <<replVars, queryVars, schemaVars, typeVars, keysVars>>
notQuery == <<replVars, conformVars, schemaVars, typeVars, keysVars>>
notSchema == <<replVars, conformVars, queryVars, typeVars, keysVars>>
notType == <<replVars, conformVars, queryVars, schemaVars, keysVars>>
notKeys == <<replVars, conformVars, queryVars, schemaVars, typeVars>>

\* A component that a specification does not exercise rests in this value.
NotCalled == [notcalled |-> TRUE]

(***************************************************************************)
(* Values.  Python values of different kinds are tagged so that they can   *)
(* be compared with one another.                                           *)
(***************************************************************************)
None == [none |-> TRUE]
IntV(n) == [int |-> n]
StrV(s) == [str |-> s]
ListV(items) == [list |-> items]

\* Bound: the number of messages the server delivers in one run.
MaxWal == 2

(***************************************************************************)
(* PostgresLogBasedStream.consume                                          *)
(***************************************************************************)
upsert_actions == {"I", "U"}
delete_actions == {"D"}
truncate_actions == {"T"}
transaction_actions == {"B", "C"}

EmptyRow == <<>>

\* dict.update({name: value})
RowUpdate(row, name, value) ==
    [k \in (DOMAIN row) \cup {name} |-> IF k = name THEN value ELSE row[k]]

\* for column in columns: row.update({column["name"]: column["value"]})
RECURSIVE RowUpdateAll(_, _)
RowUpdateAll(row, columns) ==
    IF columns = <<>> THEN row
    ELSE RowUpdateAll(RowUpdate(row, Head(columns).name, Head(columns).value),
                      Tail(columns))

\* datetime.utcnow().strftime("%Y-%m-%dT%H:%M:%SZ"): the wall clock is not
\* part of the model, the value is a timestamp string.
UtcNowStamp == StrV("YYYY-MM-DDTHH:MM:SSZ")

Returned(row) == [raised |-> "none", row |-> row]
Raised(exc) == [raised |-> exc, row |-> EmptyRow]

\* json.loads(message.payload) fails on a payload that is not JSON.
JsonDecodes(payload) == payload.wellformed

\* Mutant of consume: an unknown action is passed over like a transaction
\* boundary.
consumeSkipsUnknown(message) ==
    IF ~JsonDecodes(message.payload) THEN Returned(EmptyRow)
    ELSE LET message_payload == message.payload.doc IN
         IF message_payload.action \in upsert_actions THEN
             Returned(RowUpdate(
                        RowUpdate(RowUpdateAll(EmptyRow, message_payload.columns),
                                  "_sdc_deleted_at", None),
                        "_sdc_lsn", IntV(message.data_start)))
         ELSE IF message_payload.action \in delete_actions THEN
             Returned(RowUpdate(
                        RowUpdate(RowUpdateAll(EmptyRow, message_payload.identity),
                                  "_sdc_deleted_at", UtcNowStamp),
                        "_sdc_lsn", IntV(message.data_start)))
         ELSE Returned(EmptyRow)

consume(message) ==
    IF ~JsonDecodes(message.payload) THEN Returned(EmptyRow)
    ELSE LET message_payload == message.payload.doc IN
         IF message_payload.action \in upsert_actions THEN
             Returned(RowUpdate(
                        RowUpdate(RowUpdateAll(EmptyRow, message_payload.columns),
                                  "_sdc_deleted_at", None),
                        "_sdc_lsn", IntV(message.data_start)))
         ELSE IF message_payload.action \in delete_actions THEN
             Returned(RowUpdate(
                        RowUpdate(RowUpdateAll(EmptyRow, message_payload.identity),
                                  "_sdc_deleted_at", UtcNowStamp),
                        "_sdc_lsn", IntV(message.data_start)))
         ELSE IF message_payload.action \in truncate_actions THEN
             Returned(EmptyRow)
         ELSE IF message_payload.action \in transaction_actions THEN
             Returned(EmptyRow)
         ELSE Raised("RuntimeError")

\* Mutant of Truthy: `if row is not None:`, which lets an empty dict through.
TruthyIsNotNone(row) == TRUE

\* `if row:` -- a dict is true when it is not empty.
Truthy(row) == DOMAIN row # {}

(***************************************************************************)
(* The messages a wal2json (format-version 2) server can deliver.          *)
(***************************************************************************)
Doc(action, columns, identity) ==
    [wellformed |-> TRUE,
     doc |-> [action |-> action, columns |-> columns, identity |-> identity]]

Col(name, value) == [name |-> name, value |-> value]

Payloads ==
    { Doc("I", <<Col("id", IntV(1)), Col("v", StrV("a"))>>, <<>>),
      Doc("U", <<Col("id", IntV(1)), Col("v", StrV("b"))>>,
               <<Col("id", IntV(1))>>),
      Doc("D", <<>>, <<Col("id", IntV(1))>>),
      Doc("T", <<>>, <<>>),
      Doc("B", <<>>, <<>>),
      Doc("C", <<>>, <<>>),
      Doc("M", <<>>, <<>>),
      [wellformed |-> FALSE] }

ActionOf(message) ==
    IF message.payload.wellformed THEN message.payload.doc.action ELSE "not-json"

\* start_lsn = bookmark, or 0 when there is none
start_lsn == IF bookmark = None THEN 0 ELSE bookmark.int

Bookmarks == {None, IntV(20)}

\* The server streams from start_lsn on (the record at start_lsn included);
\* the model spaces messages ten bytes apart.
LsnStep == 10
FirstLsn == IF start_lsn = 0 THEN LsnStep ELSE start_lsn
NextLsn == FirstLsn + LsnStep * Len(wal)

(***************************************************************************)
(* PostgresLogBasedStream.get_records                                      *)
(***************************************************************************)
\* status_interval = 5.0
status_interval == 5

\* Seconds are counted up to status_interval: an age of status_interval
\* stands for "status_interval or more".
Age(a, d) == IF a + d >= status_interval THEN status_interval ELSE a + d

Call(op) == [op |-> op]
CallLsn(op, lsn) == [op |-> op, lsn |-> lsn]

ReplInit ==
    /\ pc = "start"
    /\ bookmark \in Bookmarks
    /\ wal = <<>>
    /\ read = 0
    /\ stopped = FALSE
    /\ yielded = <<>>
    /\ calls = <<>>
    /\ error = "none"
    /\ sinceFeedback = status_interval
    /\ sinceMessage = status_interval

\* No replication stream is run.
ReplIdle ==
    /\ pc = "idle"
    /\ bookmark = None
    /\ wal = <<>>
    /\ read = 0
    /\ stopped = FALSE
    /\ yielded = <<>>
    /\ calls = <<>>
    /\ error = "none"
    /\ sinceFeedback = status_interval
    /\ sinceMessage = status_interval

\* Lines 494-516: open the connection and the cursor, send the feedback,
\* start replication.  Any of the driver calls may raise.
\* start_replication(slot_name="tappostgres", ..., start_lsn=start_lsn, ...)
StartReplicationCall(slot_name, lsn) ==
    [op |-> "start_replication", lsn |-> lsn, slot_name |-> slot_name]

\* Mutant of StartupCalls: the feedback is sent after replication started.
StartupCallsFeedbackLate ==
    <<Call("connect"), Call("cursor"),
      StartReplicationCall("tappostgres", start_lsn),
      CallLsn("send_feedback", start_lsn)>>

StartupCalls ==
    <<Call("connect"), Call("cursor"),
      CallLsn("send_feedback", start_lsn),
      StartReplicationCall("tappostgres", start_lsn)>>

Startup(failing) ==
    /\ pc = "start"
    /\ \/ /\ failing = 0
          /\ calls' = StartupCalls
          /\ pc' = "loop"
          /\ error' = "none"
          /\ sinceFeedback' = 0
       \/ /\ failing \in 1..4
          \* the call that raises made no effect; the ones before it did
          /\ calls' = SubSeq(StartupCalls, 1, failing - 1)
          /\ pc' = "aborted"
          /\ error' = "psycopg2.Error"
          /\ sinceFeedback' = IF failing = 4 THEN 0 ELSE sinceFeedback
    /\ UNCHANGED <<bookmark, wal, read, stopped, yielded, sinceMessage>>
    /\ UNCHANGED notRepl

\* The server puts the next WAL message on the socket.
Deliver(payload) ==
    /\ pc \in {"loop", "yield"}
    /\ ~stopped
    /\ Len(wal) < MaxWal
    /\ wal' = Append(wal, [payload |-> payload, data_start |-> NextLsn])
    /\ UNCHANGED <<pc, bookmark, read, stopped, yielded, calls, error,
                   sinceFeedback, sinceMessage>>
    /\ UNCHANGED notRepl

\* The server goes silent for good.
ServerStops ==
    /\ pc \in {"loop", "yield"}
    /\ ~stopped
    /\ stopped' = TRUE
    /\ UNCHANGED <<pc, bookmark, wal, read, yielded, calls, error,
                   sinceFeedback, sinceMessage>>
    /\ UNCHANGED notRepl

\* Lines 521-525: read_message() returns a message; consume it; yield the
\* row when it is not empty.
ReadMessage ==
    /\ pc = "loop"
    /\ read < Len(wal)
    /\ LET message == wal[read + 1]
           consumed == consume(message)
       IN /\ read' = read + 1
          /\ sinceMessage' = 0
          /\ IF consumed.raised # "none"
             THEN /\ pc' = "aborted"
                  /\ error' = consumed.raised
                  /\ yielded' = yielded
             ELSE IF Truthy(consumed.row)
             THEN /\ pc' = "yield"
                  /\ error' = error
                  /\ yielded' = Append(yielded, consumed.row)
             ELSE /\ pc' = "loop"
                  /\ error' = error
                  /\ yielded' = yielded
    /\ UNCHANGED <<bookmark, wal, stopped, calls, sinceFeedback>>
    /\ UNCHANGED notRepl

\* Line 521: read_message() raises (the connection broke); it can in any
\* iteration.
ReadFails ==
    /\ pc = "loop"
    /\ pc' = "aborted"
    /\ error' = "psycopg2.Error"
    /\ UNCHANGED <<bookmark, wal, read, stopped, yielded, calls,
                   sinceFeedback, sinceMessage>>
    /\ UNCHANGED notRepl

\* The consumer of the generator asks for the next record; d seconds have
\* passed since the yield.
Resume(d) ==
    /\ pc = "yield"
    /\ pc' = "loop"
    /\ sinceFeedback' = Age(sinceFeedback, d)
    /\ sinceMessage' = Age(sinceMessage, d)
    /\ UNCHANGED <<bookmark, wal, read, stopped, yielded, calls, error>>
    /\ UNCHANGED notRepl

\* Line 521: read_message() answers a keepalive of the server that asks for
\* a reply: the cursor sends feedback, feedback_timestamp becomes now, and
\* read_message() returns None.
Keepalive ==
    /\ pc = "loop"
    /\ read = Len(wal)
    /\ ~stopped
    /\ sinceFeedback # 0
    /\ sinceFeedback' = 0
    /\ UNCHANGED <<pc, bookmark, wal, read, stopped, yielded, calls, error,
                   sinceMessage>>
    /\ UNCHANGED notRepl

\* Lines 527-533 and 539: max(0, status_interval - (now - feedback_timestamp))
timeout == status_interval - sinceFeedback
SelectTimeout == IF timeout > 0 THEN timeout ELSE 0

\* Lines 526-545, select() returns the cursor as readable after d seconds:
\* a message arrived; the loop goes round.
IdleReadable(d, payload) ==
    /\ pc = "loop"
    /\ read = Len(wal)
    /\ ~stopped
    /\ Len(wal) < MaxWal
    /\ d \in 0..SelectTimeout
    /\ wal' = Append(wal, [payload |-> payload, data_start |-> NextLsn])
    /\ sinceFeedback' = Age(sinceFeedback, d)
    /\ sinceMessage' = Age(sinceMessage, d)
    /\ UNCHANGED <<pc, bookmark, read, stopped, yielded, calls, error>>
    /\ UNCHANGED notRepl

\* Lines 544-545: select() is interrupted after d seconds; the
\* InterruptedError is passed over and the loop goes round.
IdleInterrupted(d) ==
    /\ pc = "loop"
    /\ read = Len(wal)
    /\ d \in 0..SelectTimeout
    /\ sinceFeedback' = Age(sinceFeedback, d)
    /\ sinceMessage' = Age(sinceMessage, d)
    /\ UNCHANGED <<pc, bookmark, wal, read, stopped, yielded, calls, error>>
    /\ UNCHANGED notRepl

\* Lines 537-548: select() returns the empty list when the timeout has
\* passed: break, close the cursor, close the connection.
ShutdownCalls == <<Call("cursor.close"), Call("connection.close")>>

IdleTimeout ==
    /\ pc = "loop"
    /\ read = Len(wal)
    /\ sinceFeedback' = Age(sinceFeedback, SelectTimeout)
    /\ sinceMessage' = Age(sinceMessage, SelectTimeout)
    /\ calls' = calls \o ShutdownCalls
    /\ pc' = "done"
    /\ UNCHANGED <<bookmark, wal, read, stopped, yielded, error>>
    /\ UNCHANGED notRepl

ReplNext ==
    \/ \E failing \in 0..4 : Startup(failing)
    \/ \E payload \in Payloads : Deliver(payload)
    \/ ServerStops
    \/ ReadMessage
    \/ ReadFails
    \/ \E d \in 0..status_interval : Resume(d)
    \/ Keepalive
    \/ \E d \in 0..status_interval : \E payload \in Payloads :
          IdleReadable(d, payload)
    \/ \E d \in 0..status_interval : IdleInterrupted(d)
    \/ IdleTimeout

(***************************************************************************)
(* patched_conform                                                         *)
(***************************************************************************)
\* Bound: the length of a byte string handed to patched_conform.
MaxBytes == 2

\* JSON-schema "type": a single name, or a list of names.
TypeName(name) == [name |-> name]
TypeList(names) == [names |-> names]

JsonUnionType ==
    TypeList(<<"string", "number", "integer", "array", "object", "boolean">>)

\* Property schemas, as dicts: a function from the keys present.
SchemaOfType(type) == [k \in {"type"} |-> type]
SchemaAnyOf(schemas) == [k \in {"anyOf"} |-> schemas]
SchemaEmpty == <<>>

PropertySchemas ==
    { SchemaOfType(TypeName("boolean")),
      SchemaOfType(TypeList(<<"boolean">>)),
      SchemaOfType(TypeList(<<"boolean", "null">>)),
      SchemaOfType(TypeList(<<"boolean", "integer">>)),
      SchemaOfType(JsonUnionType),
      SchemaOfType(TypeName("string")),
      SchemaOfType(TypeList(<<"string", "null">>)),
      SchemaOfType(TypeList(<<"integer">>)),
      SchemaAnyOf(<<SchemaOfType(TypeName("integer")),
                    SchemaOfType(TypeName("boolean"))>>),
      SchemaEmpty }

\* `"boolean" in property_type or property_type == "boolean"`: membership in
\* a list, a substring of a name (of the JSON-schema type names only
\* "boolean" has it).
HasBoolean(property_type) ==
    IF "names" \in DOMAIN property_type
    THEN \E i \in DOMAIN property_type.names : property_type.names[i] = "boolean"
    ELSE property_type.name = "boolean"

\* singer_sdk.helpers._typing.is_boolean_type, as the docstring of
\* patched_conform describes it: true if the schema contains a boolean
\* anywhere (None, which is false, when the schema has no type).
is_boolean_type(property_schema) ==
    IF "anyOf" \notin DOMAIN property_schema /\ "type" \notin DOMAIN property_schema
    THEN FALSE
    ELSE IF "anyOf" \in DOMAIN property_schema
    THEN \E i \in DOMAIN property_schema["anyOf"] :
            LET inner == property_schema["anyOf"][i] IN
            "type" \in DOMAIN inner /\ HasBoolean(inner["type"])
    ELSE HasBoolean(property_schema["type"])

\* bytes.hex(): two lowercase hexadecimal digits per byte.
HexDigits ==
    <<"0", "1", "2", "3", "4", "5", "6", "7",
      "8", "9", "a", "b", "c", "d", "e", "f">>

RECURSIVE Hex(_)
Hex(bytes) ==
    IF bytes = <<>> THEN <<>>
    ELSE <<HexDigits[(Head(bytes) \div 16) + 1], HexDigits[(Head(bytes) % 16) + 1]>>
         \o Hex(Tail(bytes))

\* Python values handed to patched_conform.  A datetime.datetime is also a
\* datetime.date (its subclass).
BytesV(bytes) == [bytes |-> bytes]
BoolV(b) == [bool |-> b]
DateV(y, m, d) == [date |-> <<y, m, d>>]
DateTimeV(y, m, d, hh, mm, ss, tz) ==
    [date |-> <<y, m, d>>, time |-> <<hh, mm, ss>>, tzinfo |-> tz]
TimeV(hh, mm, ss) == [time |-> <<hh, mm, ss>>]
TimeDeltaV(seconds) == [timedelta |-> seconds]

IsBytes(elem) == DOMAIN elem = {"bytes"}
IsDateTime(elem) == DOMAIN elem = {"date", "time", "tzinfo"}
IsDate(elem) == DOMAIN elem = {"date"} \/ IsDateTime(elem)
IsTimeDelta(elem) == DOMAIN elem = {"timedelta"}
IsTime(elem) == DOMAIN elem = {"time"}

ByteValues == {0, 1, 171}

RECURSIVE ByteStrings(_)
ByteStrings(n) ==
    IF n = 0 THEN {<<>>}
    ELSE LET shorter == ByteStrings(n - 1) IN
         shorter \cup {Append(b, v) : b \in shorter, v \in ByteValues}

\* Text of two decimal digits, and an ISO-8601 text as the sequence of its
\* parts.
TwoDigits(n) == <<n \div 10, n % 10>>
IsoDate(date) == <<date[1], "-", TwoDigits(date[2]), "-", TwoDigits(date[3])>>
IsoTime(time) ==
    <<TwoDigits(time[1]), ":", TwoDigits(time[2]), ":", TwoDigits(time[3])>>
IsoOffset(tz) == IF tz = "utc" THEN <<"+00:00">> ELSE <<>>

\* date.isoformat() and datetime.isoformat()
isoformat(elem) ==
    IF IsDateTime(elem)
    THEN IsoDate(elem.date) \o <<"T">> \o IsoTime(elem.time) \o IsoOffset(elem.tzinfo)
    ELSE IsoDate(elem.date)

\* epoch + elem, for a timedelta of whole seconds below one day
EpochPlus(seconds) ==
    DateTimeV(1970, 1, 1, seconds \div 3600, (seconds \div 60) % 60,
              seconds % 60, "utc")

Elems ==
    {BytesV(b) : b \in ByteStrings(MaxBytes)}
    \cup { DateV(2024, 1, 2),
           DateTimeV(2024, 1, 2, 3, 4, 5, "naive"),
           DateTimeV(2024, 1, 2, 3, 4, 5, "utc"),
           TimeDeltaV(3661),
           TimeV(3, 4, 5),
           IntV(0), IntV(1), StrV("a"), BoolV(FALSE), None }

\* singer_sdk.helpers._typing.to_json_compatible: a naive datetime is taken
\* as UTC, then isoformat().
to_json_compatible(elem) ==
    IF elem.tzinfo = "naive"
    THEN StrV(isoformat([elem EXCEPT !.tzinfo = "utc"]))
    ELSE StrV(isoformat(elem))

patched_conform(elem, property_schema) ==
    IF IsDate(elem) THEN StrV(isoformat(elem))
    ELSE IF IsDateTime(elem) THEN to_json_compatible(elem)
    ELSE IF IsTimeDelta(elem) THEN StrV(isoformat(EpochPlus(elem.timedelta)))
    ELSE IF IsTime(elem) THEN StrV(IsoTime(elem.time))
    ELSE IF IsBytes(elem)
    THEN IF is_boolean_type(property_schema)
         THEN BoolV(elem.bytes # <<0>>)
         ELSE StrV(Hex(elem.bytes))
    ELSE elem

ConformInit ==
    /\ conform_call \in [elem : Elems, property_schema : PropertySchemas]
    /\ conform_result = NotCalled

ConformIdle == conform_call = NotCalled /\ conform_result = NotCalled

\* The runtime conforms one primitive value of a record.
Conform ==
    /\ conform_call # NotCalled
    /\ conform_result = NotCalled
    /\ conform_result' = patched_conform(conform_call.elem,
                                         conform_call.property_schema)
    /\ UNCHANGED conform_call
    /\ UNCHANGED notConform

(***************************************************************************)
(* PostgresStream.get_records                                              *)
(***************************************************************************)
\* Bound: the number of rows of the table.
MaxRows == 2

\* Python truth of a value: None, 0, False, the empty string, the empty list,
\* the empty bytes, the empty dict and a timedelta of zero are false.
TruthyValue(v) ==
    IF DOMAIN v = {} THEN FALSE
    ELSE IF v = None THEN FALSE
    ELSE IF DOMAIN v = {"int"} THEN v.int # 0
    ELSE IF DOMAIN v = {"bool"} THEN v.bool
    ELSE IF DOMAIN v = {"str"} THEN Len(v.str) # 0
    ELSE IF DOMAIN v = {"list"} THEN Len(v.list) # 0
    ELSE IF DOMAIN v = {"bytes"} THEN Len(v.bytes) # 0
    ELSE IF DOMAIN v = {"timedelta"} THEN v.timedelta # 0
    ELSE TRUE
TruthyDict(d) == d # None /\ DOMAIN d # {}

\* class attribute supports_nulls_first = True
supports_nulls_first == TRUE

\* table.select(), and the generative methods of the SQLAlchemy Select: each
\* returns the query with that clause set; a second limit() replaces the
\* first.
Select == [order_by |-> "none", where_ge |-> None, limit |-> None]
OrderBy(q, order) == [q EXCEPT !.order_by = order]
WhereGe(q, start_val) == [q EXCEPT !.where_ge = start_val]
Limit(q, n) == [q EXCEPT !.limit = IntV(n)]

\* ORDER BY k ASC NULLS FIRST / ORDER BY k ASC (PostgreSQL: nulls last)
Before(a, b, order) ==
    IF a = None /\ b = None THEN TRUE
    ELSE IF a = None THEN order = "asc nulls first"
    ELSE IF b = None THEN order # "asc nulls first"
    ELSE a.int <= b.int

RECURSIVE InsertRow(_, _, _)
InsertRow(row, rows, order) ==
    IF rows = <<>> THEN <<row>>
    ELSE IF Before(Head(rows).k, row.k, order)
    THEN <<Head(rows)>> \o InsertRow(row, Tail(rows), order)
    ELSE <<row>> \o rows

RECURSIVE SortRows(_, _)
SortRows(rows, order) ==
    IF rows = <<>> THEN <<>>
    ELSE InsertRow(rows[Len(rows)],
                   SortRows(SubSeq(rows, 1, Len(rows) - 1), order), order)

\* k >= start_val is not true of a NULL k
RowPasses(row, q) ==
    q.where_ge = None \/ (row.k # None /\ row.k.int >= q.where_ge.int)

RECURSIVE FilterRows(_, _)
FilterRows(rows, q) ==
    IF rows = <<>> THEN <<>>
    ELSE IF RowPasses(Head(rows), q)
    THEN <<Head(rows)>> \o FilterRows(Tail(rows), q)
    ELSE FilterRows(Tail(rows), q)

\* conn.execute(query).mappings(): WHERE, then ORDER BY, then LIMIT
Execute(rows, q) ==
    LET kept == FilterRows(rows, q)
        ordered == IF q.order_by = "none" THEN kept
                   ELSE SortRows(kept, q.order_by)
    IN IF q.limit = None \/ q.limit.int >= Len(ordered) THEN ordered
       ELSE SubSeq(ordered, 1, q.limit.int)

\* Lines 393-404
WithReplicationKey(q, s) ==
    IF ~TruthyValue(s.replication_key) THEN q
    ELSE LET ordered == OrderBy(q, IF supports_nulls_first
                                   THEN "asc nulls first" ELSE "asc")
         IN IF TruthyValue(s.start_val) THEN WhereGe(ordered, s.start_val)
            ELSE ordered

\* Lines 406-411
WithAbortLimit(q, s) ==
    IF s.ABORT_AT_RECORD_COUNT # None
    THEN Limit(q, s.ABORT_AT_RECORD_COUNT.int + 1)
    ELSE q

\* Lines 413-414
WithMaxRecordCount(q, s) ==
    IF TruthyValue(s.max_record_count) THEN Limit(q, s.max_record_count.int)
    ELSE q

BuildQuery(s) == WithMaxRecordCount(WithAbortLimit(WithReplicationKey(Select, s), s), s)

\* post_process of the SDK's Stream: the row, unchanged.
post_process(row) == row

KeyValues == {None, IntV(-1), IntV(0), IntV(1)}

RECURSIVE Tables(_)
Tables(n) ==
    IF n = 0 THEN {<<>>}
    ELSE LET shorter == Tables(n - 1) IN
         shorter \cup {Append(t, [k |-> v]) : t \in shorter, v \in KeyValues}

Contexts == {None, EmptyRow, RowUpdate(EmptyRow, "partition", IntV(1))}

Streams ==
    { s \in [context : Contexts,
             replication_key : {None, StrV(""), StrV("k")},
             start_val : {None, IntV(-1), IntV(0), IntV(1)},
             table : Tables(MaxRows),
             ABORT_AT_RECORD_COUNT : {None, IntV(0), IntV(1)},
             max_record_count : {None, IntV(0), IntV(1), IntV(2)}] :
        \* a bookmark is kept for a stream with a replication key only
        ~TruthyValue(s.replication_key) => s.start_val = None }

QueryInit ==
    /\ query_pc = "start"
    /\ stream \in Streams
    /\ query = None
    /\ result = <<>>
    /\ emitted = <<>>

QueryIdle ==
    /\ query_pc = "idle"
    /\ stream = NotCalled
    /\ query = None
    /\ result = <<>>
    /\ emitted = <<>>

\* Lines 382-384: a context that is true raises NotImplementedError.
QueryRejectsContext ==
    /\ query_pc = "start"
    /\ TruthyDict(stream.context)
    /\ query_pc' = "aborted"
    /\ UNCHANGED <<stream, query, result, emitted>>
    /\ UNCHANGED notQuery

\* Lines 386-417: build the query, connect, execute.
QueryExecute ==
    /\ query_pc = "start"
    /\ ~TruthyDict(stream.context)
    /\ query' = BuildQuery(stream)
    /\ result' = Execute(stream.table, BuildQuery(stream))
    /\ query_pc' = "rows"
    /\ UNCHANGED <<stream, emitted>>
    /\ UNCHANGED notQuery

\* Lines 417-424: the next row is post-processed and yielded.
QueryYield ==
    /\ query_pc = "rows"
    /\ result # <<>>
    /\ emitted' = Append(emitted, post_process(Head(result)))
    /\ result' = Tail(result)
    /\ UNCHANGED <<query_pc, stream, query>>
    /\ UNCHANGED notQuery

\* Line 416-417: the rows are exhausted; the connection is released.
QueryEnd ==
    /\ query_pc = "rows"
    /\ result = <<>>
    /\ query_pc' = "done"
    /\ UNCHANGED <<stream, query, result, emitted>>
    /\ UNCHANGED notQuery

QueryNext == QueryRejectsContext \/ QueryExecute \/ QueryYield \/ QueryEnd

(***************************************************************************)
(* PostgresLogBasedStream.schema                                           *)
(***************************************************************************)
\* self._singer_catalog_entry.schema.to_dict(): "properties", and "required"
\* when the table has key properties.
CatalogSchema(properties) == [k \in {"properties"} |-> properties]
CatalogSchemaRequiring(properties, required) ==
    [k \in {"properties", "required"} |->
        IF k = "properties" THEN properties ELSE required]

ColumnNames == {"id", "v"}

ColumnTypes ==
    { TypeName("string"),
      TypeList(<<"integer">>),
      TypeList(<<"string", "null">>),
      TypeName("boolean"),
      JsonUnionType }

PropertyMaps ==
    UNION { [names -> {SchemaOfType(type) : type \in ColumnTypes}] :
              names \in SUBSET ColumnNames }

CatalogSchemas ==
    {CatalogSchema(properties) : properties \in PropertyMaps}
    \cup {CatalogSchemaRequiring(properties, <<"id">>) :
            properties \in {m \in PropertyMaps : "id" \in DOMAIN m}}

\* Lines 447-450: a list gets "null" appended, a single name becomes the
\* list [name, "null"].
WithNull(property) ==
    [property EXCEPT !["type"] =
        IF "names" \in DOMAIN property["type"]
        THEN TypeList(Append(property["type"].names, "null"))
        ELSE TypeList(<<property["type"].name, "null">>)]

\* dict.pop(key)
DictPop(dict, key) == [k \in (DOMAIN dict) \ {key} |-> dict[k]]

LogBasedSchema(schema_dict) ==
    LET nullable == [name \in DOMAIN schema_dict["properties"] |->
                        WithNull(schema_dict["properties"][name])]
        popped == IF "required" \in DOMAIN schema_dict
                  THEN DictPop(schema_dict, "required")
                  ELSE schema_dict
        with_sdc ==
            RowUpdate(
              RowUpdate(nullable, "_sdc_deleted_at",
                        SchemaOfType(TypeList(<<"string">>))),
              "_sdc_lsn", SchemaOfType(TypeList(<<"integer">>)))
    IN [popped EXCEPT !["properties"] = with_sdc]

\* Line 445 and lines 447-448: whether the dict of to_dict() shares its
\* "type" lists with the catalog entry is the library's matter.  When it
\* does, the append on line 448 is made on the catalog entry's schema too
\* (a single type name is replaced in the dict only, line 450); when
\* to_dict() copies the lists, the entry stays as it was.
AppendedInPlace(property) ==
    IF "names" \in DOMAIN property["type"]
    THEN [property EXCEPT !["type"] =
             TypeList(Append(property["type"].names, "null"))]
    ELSE property

CatalogEntryAfter(schema_dict, shares_type_lists) ==
    IF shares_type_lists
    THEN [schema_dict EXCEPT !["properties"] =
             [name \in DOMAIN schema_dict["properties"] |->
                 AppendedInPlace(schema_dict["properties"][name])]]
    ELSE schema_dict

SchemaInit ==
    /\ schema_call \in CatalogSchemas
    /\ schema_result = NotCalled

SchemaIdle == schema_call = NotCalled /\ schema_result = NotCalled

\* The cached property is computed, once.
ComputeSchema ==
    /\ schema_call # NotCalled
    /\ schema_result = NotCalled
    /\ schema_result' = LogBasedSchema(schema_call)
    /\ \E shares_type_lists \in BOOLEAN :
          schema_call' = CatalogEntryAfter(schema_call, shares_type_lists)
    /\ UNCHANGED notSchema

(***************************************************************************)
(* PostgresConnector.discover_catalog_entry: key properties                *)
(***************************************************************************)
\* Bound: the number of indexes of the table.
MaxIndexes == 2

\* inspected.get_pk_constraint(): the reflected constraint; for a table
\* without a primary key SQLAlchemy gives an empty constrained_columns list.
PkDefs ==
    { None,
      EmptyRow,
      [name |-> None],
      [constrained_columns |-> <<>>, name |-> None],
      [constrained_columns |-> <<StrV("id")>>, name |-> StrV("t_pkey")] }

\* inspected.get_indexes(): a column entry is None for an expression.
IndexDefs ==
    { [column_names |-> <<StrV("u")>>, unique |-> TRUE],
      [column_names |-> <<None>>, unique |-> TRUE],
      [column_names |-> <<StrV("n")>>, unique |-> FALSE],
      [column_names |-> <<StrV("w")>>] }

RECURSIVE IndexLists(_)
IndexLists(n) ==
    IF n = 0 THEN {<<>>}
    ELSE LET shorter == IndexLists(n - 1) IN
         shorter \cup {Append(l, d) : l \in shorter, d \in IndexDefs}

\* index_def.get("unique", False)
IsUnique(index_def) == "unique" \in DOMAIN index_def /\ index_def.unique

\* Lines 292-296
RECURSIVE UniqueIndexColumns(_)
UniqueIndexColumns(indexes) ==
    IF indexes = <<>> THEN <<>>
    ELSE (IF IsUnique(Head(indexes)) THEN <<Head(indexes).column_names>> ELSE <<>>)
         \o UniqueIndexColumns(Tail(indexes))

\* Lines 285-288
DeclaredKeyColumns(pk_def) ==
    IF TruthyDict(pk_def) /\ "constrained_columns" \in DOMAIN pk_def
    THEN <<pk_def.constrained_columns>>
    ELSE <<>>

possible_primary_keys(pk_def, indexes) ==
    DeclaredKeyColumns(pk_def) \o UniqueIndexColumns(indexes)

\* next(iter(possible_primary_keys), None): None, or a list of columns
key_properties(pk_def, indexes) ==
    IF possible_primary_keys(pk_def, indexes) = <<>> THEN None
    ELSE ListV(Head(possible_primary_keys(pk_def, indexes)))

KeysInit ==
    /\ keys_call \in [pk_def : PkDefs, indexes : IndexLists(MaxIndexes)]
    /\ keys_result = NotCalled

KeysIdle == keys_call = NotCalled /\ keys_result = NotCalled

DetectKeys ==
    /\ keys_call # NotCalled
    /\ keys_result = NotCalled
    /\ keys_result' = key_properties(keys_call.pk_def, keys_call.indexes)
    /\ UNCHANGED keys_call
    /\ UNCHANGED notKeys

(***************************************************************************)
(* PostgresConnector.to_jsonschema_type / sdk_typing_object                *)
(***************************************************************************)
\* Text is a sequence of characters, so that lower() and the substring test
\* are computed.
UpperCase ==
    <<"A", "B", "C", "D", "E", "F", "G", "H", "I", "J", "K", "L", "M">> \o
    <<"N", "O", "P", "Q", "R", "S", "T", "U", "V", "W", "X", "Y", "Z">>
LowerCase ==
    <<"a", "b", "c", "d", "e", "f", "g", "h", "i", "j", "k", "l", "m">> \o
    <<"n", "o", "p", "q", "r", "s", "t", "u", "v", "w", "x", "y", "z">>

LowerChar(c) ==
    IF \E i \in DOMAIN UpperCase : UpperCase[i] = c
    THEN LowerCase[CHOOSE i \in DOMAIN UpperCase : UpperCase[i] = c]
    ELSE c

\* Mutant of Lower: no case folding.
LowerForgotten(text) == text

\* str.lower()
Lower(text) == [i \in DOMAIN text |-> LowerChar(text[i])]

\* `sub in text`
Contains(text, sub) ==
    \E i \in 1..(Len(text) - Len(sub) + 1) :
        SubSeq(text, i, i + Len(sub) - 1) = sub

\* The type_dict of the singer_sdk.typing classes.
CustomType(type) == SchemaOfType(type)
StringType == SchemaOfType(TypeList(<<"string">>))
IntegerType == SchemaOfType(TypeList(<<"integer">>))
NumberType == SchemaOfType(TypeList(<<"number">>))
BooleanType == SchemaOfType(TypeList(<<"boolean">>))
Formatted(format) ==
    [k \in {"type", "format"} |->
        IF k = "type" THEN TypeList(<<"string">>) ELSE format]
DateTimeType == Formatted("date-time")
DateType == Formatted("date")
ArrayType(wrapped) ==
    [k \in {"type", "items"} |-> IF k = "type" THEN TypeName("array") ELSE wrapped]

Entry(sqltype, jsonschema_type) ==
    [sqltype |-> sqltype, jsonschema_type |-> jsonschema_type]

\* Lines 194-228: the ordered mapping; dates_as_string replaces the values of
\* "date" and "datetime" in place.
sqltype_lookup(dates_as_string) ==
    <<Entry(<<"j", "s", "o", "n", "b">>, CustomType(JsonUnionType)),
      Entry(<<"j", "s", "o", "n">>, CustomType(JsonUnionType)),
      Entry(<<"t", "i", "m", "e", "s", "t", "a", "m", "p">>, DateTimeType),
      Entry(<<"d", "a", "t", "e", "t", "i", "m", "e">>, IF dates_as_string THEN StringType ELSE DateTimeType),
      Entry(<<"d", "a", "t", "e">>, IF dates_as_string THEN StringType ELSE DateType),
      Entry(<<"i", "n", "t">>, IntegerType),
      Entry(<<"n", "u", "m", "e", "r", "i", "c">>, NumberType),
      Entry(<<"d", "e", "c", "i", "m", "a", "l">>, NumberType),
      Entry(<<"d", "o", "u", "b", "l", "e">>, NumberType),
      Entry(<<"f", "l", "o", "a", "t">>, NumberType),
      Entry(<<"r", "e", "a", "l">>, NumberType),
      Entry(<<"f", "l", "o", "a", "t", "4">>, NumberType),
      Entry(<<"s", "t", "r", "i", "n", "g">>, StringType),
      Entry(<<"t", "e", "x", "t">>, StringType),
      Entry(<<"c", "h", "a", "r">>, StringType),
      Entry(<<"b", "o", "o", "l">>, BooleanType),
      Entry(<<"v", "a", "r", "i", "a", "n", "t">>, StringType)>>

\* What is handed to the mapper: a type name, an instance of a SQLAlchemy
\* TypeEngine class (an ARRAY instance has an item_type), a TypeEngine
\* class, or something else.
TypeStr(text) == [str |-> text]
TypeInstance(class_name) == [instance_of |-> class_name]
\* An instance of a class that has a length (String and its subclasses, BIT):
\* VARCHAR(255), VARCHAR() whose length is None.
SizedInstance(class_name, length) ==
    [instance_of |-> class_name, length |-> length]
ArrayInstance(item_type) ==
    [instance_of |-> <<"A", "R", "R", "A", "Y">>, item_type |-> item_type]
TypeClass(class_name) == [class |-> class_name]
NotAType == IntV(4)

IsStr(t) == DOMAIN t = {"str"}
IsTypeEngine(t) == "instance_of" \in DOMAIN t
IsTypeEngineClass(t) == DOMAIN t = {"class"}
IsArray(t) == DOMAIN t = {"instance_of", "item_type"}

TypeNames ==
    { <<"J", "S", "O", "N", "B">>,
      <<"J", "S", "O", "N">>,
      <<"I", "N", "T", "E", "G", "E", "R">>,
      <<"D", "O", "U", "B", "L", "E", " ", "P", "R", "E", "C", "I", "S", "I", "O", "N">>,
      <<"_", "i", "n", "t", "4">>,
      <<"N", "U", "M", "E", "R", "I", "C", "(", "1", "0", ",", "2", ")">>,
      <<"V", "A", "R", "C", "H", "A", "R", "(", "2", "5", "5", ")">>,
      <<"t", "e", "x", "t">>,
      <<"B", "O", "O", "L", "E", "A", "N">>,
      <<"T", "I", "M", "E", "S", "T", "A", "M", "P">>,
      <<"D", "A", "T", "E">>,
      <<"d", "a", "t", "e", "t", "i", "m", "e">>,
      <<"U", "U", "I", "D">>,
      <<"B", "I", "T">>,
      <<"I", "N", "T", "E", "R", "V", "A", "L">>,
      <<"b", "i", "g", "i", "n", "t">>,
      <<"R", "E", "A", "L">>,
      <<"f", "l", "o", "a", "t", "4">>,
      <<"D", "E", "C", "I", "M", "A", "L">>,
      <<"v", "a", "r", "i", "a", "n", "t">> }

ClassNames ==
    { <<"I", "N", "T", "E", "G", "E", "R">>,
      <<"V", "A", "R", "C", "H", "A", "R">>,
      <<"J", "S", "O", "N", "B">>,
      <<"T", "I", "M", "E", "S", "T", "A", "M", "P">>,
      <<"D", "A", "T", "E">>,
      <<"B", "O", "O", "L", "E", "A", "N">>,
      <<"B", "I", "T">>,
      <<"D", "O", "U", "B", "L", "E", "_", "P", "R", "E", "C", "I", "S", "I", "O", "N">>,
      <<"U", "U", "I", "D">> }

\* The classes whose instances carry a length attribute.
SizedClassNames == {<<"V", "A", "R", "C", "H", "A", "R">>, <<"B", "I", "T">>}
Lengths == {None, IntV(8), IntV(255)}

Instances ==
    {TypeInstance(name) : name \in ClassNames \ SizedClassNames}
    \cup {SizedInstance(name, length) :
             name \in SizedClassNames, length \in Lengths}

SqlTypes ==
    {TypeStr(text) : text \in TypeNames}
    \cup Instances
    \cup {ArrayInstance(item_type) : item_type \in Instances}
    \cup {TypeClass(name) : name \in ClassNames}
    \cup {NotAType}

\* Lines 240-245: the first entry whose key is contained in the type name,
\* "string" when there is none.
RECURSIVE LookUp(_, _)
LookUp(entries, type_name) ==
    IF entries = <<>> THEN StringType
    ELSE IF Contains(Lower(type_name), Lower(Head(entries).sqltype))
    THEN Head(entries).jsonschema_type
    ELSE LookUp(Tail(entries), type_name)

ValueError == [raised |-> "ValueError"]

\* Lines 229-245
sdk_typing_object(from_type, dates_as_string) ==
    IF IsStr(from_type)
    THEN LookUp(sqltype_lookup(dates_as_string), from_type.str)
    ELSE IF IsTypeEngine(from_type)
    THEN LookUp(sqltype_lookup(dates_as_string), from_type.instance_of)
    ELSE IF IsTypeEngineClass(from_type)
    THEN LookUp(sqltype_lookup(dates_as_string), from_type.class)
    ELSE ValueError

\* Lines 148-161
to_jsonschema_type(sql_type, dates_as_string) ==
    LET type_name == IF IsStr(sql_type) THEN TypeStr(sql_type.str)
                     ELSE IF IsTypeEngine(sql_type)
                     THEN TypeStr(sql_type.instance_of)
                     ELSE None
    IN IF /\ type_name # None
          /\ IsArray(sql_type)
          /\ type_name = TypeStr(<<"A", "R", "R", "A", "Y">>)
       THEN LET array_type == sdk_typing_object(sql_type.item_type, dates_as_string)
            IN IF array_type = ValueError THEN ValueError ELSE ArrayType(array_type)
       ELSE sdk_typing_object(sql_type, dates_as_string)

TypeInit ==
    /\ type_call \in [sql_type : SqlTypes, dates_as_string : BOOLEAN]
    /\ type_result = NotCalled

\* hasattr(column_def["type"], "length")
HasLength(sql_type) == "length" \in DOMAIN sql_type

\* Lines 305-307: the fragment of a column, with maxLength set from the
\* type's length when the type has one.
ColumnFragment(sql_type, dates_as_string) ==
    LET jsonschema_type == to_jsonschema_type(sql_type, dates_as_string)
    IN IF jsonschema_type = ValueError THEN ValueError
       ELSE IF HasLength(sql_type)
       THEN RowUpdate(jsonschema_type, "maxLength", sql_type.length)
       ELSE jsonschema_type

\* discover_catalog_entry maps one column.
MapType ==
    /\ type_call # NotCalled
    /\ type_result = NotCalled
    /\ type_result' = ColumnFragment(type_call.sql_type,
                                     type_call.dates_as_string)
    /\ UNCHANGED type_call
    /\ UNCHANGED notType

(***************************************************************************)
(* Specifications: one per component, the others at rest                   *)
(***************************************************************************)
TypeIdle == type_call = NotCalled /\ type_result = NotCalled

Init == ReplInit /\ ConformIdle /\ QueryIdle /\ SchemaIdle /\ TypeIdle /\ KeysIdle
Next == ReplNext
Spec == Init /\ [][Next]_vars

InitConform ==
    ReplIdle /\ ConformInit /\ QueryIdle /\ SchemaIdle /\ TypeIdle /\ KeysIdle
SpecConform == InitConform /\ [][Conform]_vars

InitQuery ==
    ReplIdle /\ ConformIdle /\ QueryInit /\ SchemaIdle /\ TypeIdle /\ KeysIdle
SpecQuery == InitQuery /\ [][QueryNext]_vars

InitSchema ==
    ReplIdle /\ ConformIdle /\ QueryIdle /\ SchemaInit /\ TypeIdle /\ KeysIdle
SpecSchema == InitSchema /\ [][ComputeSchema]_vars

InitKeys ==
    ReplIdle /\ ConformIdle /\ QueryIdle /\ SchemaIdle /\ TypeIdle /\ KeysInit
SpecKeys == InitKeys /\ [][DetectKeys]_vars

InitType ==
    ReplIdle /\ ConformIdle /\ QueryIdle /\ SchemaIdle /\ TypeInit /\ KeysIdle
SpecType == InitType /\ [][MapType]_vars

\* The generator keeps running while it is in the loop (a timed-out select()
\* breaks it), and the runtime that iterates it keeps asking for records.
FairSpec ==
    /\ Spec
    /\ WF_vars(ReadMessage)
    /\ WF_vars(\E d \in 0..status_interval : Resume(d))
    /\ WF_vars(IdleTimeout)

(***************************************************************************)
(* Claims about the replication stream                                     *)
(***************************************************************************)
Consumed == SubSeq(wal, 1, read)
IsRecordMessage(message) == ActionOf(message) \in {"I", "U", "D"}
IsSkippedMessage(message) == ActionOf(message) \in {"T", "B", "C", "not-json"}
Opened == \E i \in DOMAIN calls : calls[i] = Call("connect")
ClosedInOrder ==
    /\ Len(calls) >= 2
    /\ SubSeq(calls, Len(calls) - 1, Len(calls)) = ShutdownCalls
\* C1 (as claimed): in every run, once the server has stopped delivering,
\* the loop eventually breaks; when it has, the cursor was closed and then
\* the connection, as the last two calls, and no record is yielded
\* afterwards.
C1_TerminatesOnIdleness ==
    /\ (stopped /\ pc \in {"loop", "yield"}) ~> (pc = "done")
    /\ [](pc = "done" => ClosedInOrder)
    /\ [][pc = "done" => yielded' = yielded /\ pc' = "done"]_vars

\* C2: the yielded records are, in order, one per consumed message whose
\* action is I, U or D, each carrying that message's LSN; no empty row is
\* yielded; a message with action T, B or C or a payload that is not JSON
\* yields nothing and leaves the loop running; only a message outside those
\* ends the run from within consume.
C2_YieldedAreTheChanges ==
    /\ [](LET expected == SelectSeq(Consumed, IsRecordMessage) IN
          /\ Len(yielded) = Len(expected)
          /\ \A i \in DOMAIN yielded :
                /\ yielded[i] # EmptyRow
                /\ yielded[i]["_sdc_lsn"] = IntV(expected[i].data_start)
          /\ error = "RuntimeError" =>
                /\ read > 0
                /\ ~IsRecordMessage(wal[read])
                /\ ~IsSkippedMessage(wal[read]))
    /\ [][(read' = read + 1 /\ IsSkippedMessage(wal[read + 1]))
            => (pc' = "loop" /\ yielded' = yielded)]_vars

C2_Witness ==
    /\ read = 2
    /\ Len(yielded) = 1
    /\ IsSkippedMessage(wal[1])
    /\ IsRecordMessage(wal[2])
    /\ pc = "done"

\* The positions in the call log of the calls of one driver operation.
CallsOf(op) == {i \in DOMAIN calls : calls[i].op = op}
BookmarkOrZero == IF bookmark = None THEN 0 ELSE bookmark.int
Redelivered(message) ==
    IsRecordMessage(message) /\ message.data_start = BookmarkOrZero

\* C11: once replication runs, feedback with flush_lsn = the bookmark (0
\* when there is none) has been sent exactly once, before the one
\* start_replication call, which names slot tappostgres and the same LSN;
\* no message is read before both calls; feedback is never sent a second
\* time; and every consumed record message, the one redelivered at
\* LSN = start_lsn included, is yielded with its LSN.
C11_StartupOrder ==
    /\ [](/\ Cardinality(CallsOf("send_feedback")) <= 1
          /\ Cardinality(CallsOf("start_replication")) <= 1
          /\ \A i \in CallsOf("send_feedback") :
                calls[i].lsn = BookmarkOrZero
          /\ \A i \in CallsOf("start_replication") :
                /\ calls[i].lsn = BookmarkOrZero
                /\ calls[i].slot_name = "tappostgres"
                /\ \E j \in CallsOf("send_feedback") : j < i
          /\ (pc \in {"loop", "yield", "done"} \/ read > 0) =>
                /\ CallsOf("send_feedback") # {}
                /\ CallsOf("start_replication") # {}
          /\ \A i \in 1..read :
                IsRecordMessage(wal[i]) =>
                   \E j \in DOMAIN yielded :
                      yielded[j]["_sdc_lsn"] = IntV(wal[i].data_start))
    /\ [][read' # read =>
            /\ CallsOf("send_feedback") # {}
            /\ CallsOf("start_replication") # {}
            /\ calls' = calls]_vars

C11_Witness ==
    /\ bookmark = IntV(20)
    /\ read >= 1
    /\ Redelivered(wal[1])
    /\ Len(yielded) >= 1
    /\ yielded[1]["_sdc_lsn"] = IntV(20)
    /\ CallsOf("send_feedback") = {3}
    /\ calls[3].lsn = 20

IsUnknownAction(message) ==
    /\ message.payload.wellformed
    /\ message.payload.doc.action \notin {"I", "U", "D", "T", "B", "C"}

\* C12: reading a message whose payload is JSON with an action outside
\* I, U, D, T, B, C ends the run with a RuntimeError and yields nothing for
\* it; such a message is only ever the last one read; after the abort no
\* message is read and no record is yielded, and the records yielded before
\* stay as they were.
C12_UnknownActionAborts ==
    /\ [](\A i \in 1..read :
             IsUnknownAction(wal[i]) =>
                /\ i = read
                /\ pc = "aborted"
                /\ error = "RuntimeError"
                /\ Len(yielded) = Len(SelectSeq(SubSeq(wal, 1, i - 1),
                                                IsRecordMessage)))
    /\ [][(read' = read + 1 /\ IsUnknownAction(wal[read + 1])) =>
            (pc' = "aborted" /\ error' = "RuntimeError"
             /\ yielded' = yielded)]_vars
    /\ [][pc = "aborted" =>
            (pc' = "aborted" /\ read' = read /\ yielded' = yielded)]_vars

C12_Witness ==
    /\ pc = "aborted"
    /\ error = "RuntimeError"
    /\ read = 2
    /\ IsRecordMessage(wal[1])
    /\ IsUnknownAction(wal[2])
    /\ Len(yielded) = 1

\* C6 (as claimed): whenever the run has ended after the connection was
\* opened, the cursor and the connection have been closed.
C6_ReleasedOnEveryPath ==
    (pc \in {"done", "aborted"} /\ Opened) => ClosedInOrder

\* C10 (as claimed): the loop does not break less than status_interval
\* seconds after a message was received.
C10_BreaksOnlyAfterIdleInterval ==
    pc = "done" => sinceMessage >= status_interval

(***************************************************************************)
(* Claims about patched_conform                                            *)
(***************************************************************************)
SchemaTypeNames(property_schema) ==
    IF "type" \notin DOMAIN property_schema THEN {}
    ELSE IF "names" \in DOMAIN property_schema["type"]
    THEN {property_schema["type"].names[i] :
             i \in DOMAIN property_schema["type"].names}
    ELSE {property_schema["type"].name}

\* The schema says boolean and nothing else (but for nullability).
ExactlyBoolean(property_schema) ==
    /\ "boolean" \in SchemaTypeNames(property_schema)
    /\ SchemaTypeNames(property_schema) \subseteq {"boolean", "null"}

\* C3 (as claimed): a byte string is coerced to a boolean only under a
\* schema that is exactly boolean (false for the single zero byte, true
\* otherwise); under any other schema, a union that merely contains
\* "boolean" included, the result is its lowercase hex text.
C3_BooleanOnlyWhenExactlyBoolean ==
    (conform_result # NotCalled /\ IsBytes(conform_call.elem)) =>
        IF ExactlyBoolean(conform_call.property_schema)
        THEN conform_result = BoolV(conform_call.elem.bytes # <<0>>)
        ELSE conform_result = StrV(Hex(conform_call.elem.bytes))

IsPlainDate(elem) == DOMAIN elem = {"date"}
\* An ISO-8601 text is the five parts of the date, then, for a datetime,
\* the separator "T" and the time.
HasT(text) == Len(text) > 5 /\ text[6] = "T"

\* C13 (as claimed): a calendar date is emitted as its ISO-8601 date text,
\* which has no 'T'; a datetime is emitted by the datetime rule, as its
\* ISO-8601 text with a naive datetime taken as UTC.
C13_DatetimeByDatetimeRule ==
    conform_result # NotCalled =>
        /\ IsPlainDate(conform_call.elem) =>
              /\ conform_result = StrV(IsoDate(conform_call.elem.date))
              /\ ~HasT(conform_result.str)
        /\ IsDateTime(conform_call.elem) =>
              conform_result =
                 StrV(IsoDate(conform_call.elem.date) \o <<"T">>
                      \o IsoTime(conform_call.elem.time) \o <<"+00:00">>)

(***************************************************************************)
(* Claims about the query stream                                           *)
(***************************************************************************)
Min(a, b) == IF a <= b THEN a ELSE b

\* C4 (as claimed): with a replication key and a bookmark v0, whatever its
\* value, every emitted row has k >= v0; a row whose k is NULL is emitted
\* only when there is no bookmark.
C4_EmittedAtOrAfterBookmark ==
    (stream # NotCalled /\ stream.replication_key = StrV("k")
     /\ stream.start_val # None)
    => \A i \in DOMAIN emitted :
          /\ emitted[i].k # None
          /\ emitted[i].k.int >= stream.start_val.int

\* C5 (as claimed): with ABORT_AT_RECORD_COUNT and max_record_count both set
\* the query returns at most the smaller of ABORT_AT_RECORD_COUNT + 1 and
\* max_record_count rows; with max_record_count = n alone, at most n.
C5_SmallerLimitWins ==
    (stream # NotCalled /\ stream.max_record_count # None) =>
        Len(emitted) + Len(result)
            <= IF stream.ABORT_AT_RECORD_COUNT # None
               THEN Min(stream.ABORT_AT_RECORD_COUNT.int + 1,
                        stream.max_record_count.int)
               ELSE stream.max_record_count.int

\* C14 (as claimed): with a context that is not null, the empty map
\* included, get_records raises before a query is built, a connection is
\* opened or a row is yielded; with a null context it does not raise.
C14_NonNullContextRaises ==
    stream # NotCalled =>
        /\ stream.context # None =>
              /\ query_pc \in {"start", "aborted"}
              /\ query = None
              /\ result = <<>>
              /\ emitted = <<>>
        /\ stream.context = None => query_pc # "aborted"

(***************************************************************************)
(* Claims about the log-based schema and the key properties                *)
(***************************************************************************)
\* C7 (as claimed): in the log-based schema every property, _sdc_deleted_at
\* and _sdc_lsn included, has a type list containing "null"; there is no
\* "required" key; _sdc_deleted_at and _sdc_lsn are properties.
C7_EveryPropertyNullable ==
    schema_result # NotCalled =>
        /\ "required" \notin DOMAIN schema_result
        /\ {"_sdc_deleted_at", "_sdc_lsn"} \subseteq DOMAIN schema_result["properties"]
        /\ \A name \in DOMAIN schema_result["properties"] :
              "null" \in SchemaTypeNames(schema_result["properties"][name])

\* The table declares a primary key: the reflected constraint has columns.
DeclaresPrimaryKey(pk_def) ==
    /\ TruthyDict(pk_def)
    /\ "constrained_columns" \in DOMAIN pk_def
    /\ pk_def.constrained_columns # <<>>

\* A unique index on real columns: none of its column entries is null.
IsRealUniqueIndex(index_def) ==
    /\ IsUnique(index_def)
    /\ \A i \in DOMAIN index_def.column_names : index_def.column_names[i] # None

\* C9 (as claimed): key_properties is the declared primary key's column list
\* when the table declares one, otherwise the column list of a unique index
\* on real columns when there is one; an expression-only unique index never
\* contributes.
C9_KeyPropertiesFirstAvailable ==
    keys_result # NotCalled =>
        LET real == SelectSeq(keys_call.indexes, IsRealUniqueIndex) IN
        IF DeclaresPrimaryKey(keys_call.pk_def)
        THEN keys_result = ListV(keys_call.pk_def.constrained_columns)
        ELSE IF real # <<>>
        THEN \E i \in DOMAIN real : keys_result = ListV(real[i].column_names)
        ELSE keys_result \in {None, ListV(<<>>)}

(***************************************************************************)
(* Claims about the type mapper                                            *)
(***************************************************************************)
Named(text) == type_call # NotCalled /\ type_call.sql_type = TypeStr(text)

\* C8 (as claimed): "JSONB", "JSON", "INTEGER", "DOUBLE PRECISION", "_int4"
\* and "NUMERIC(10,2)" map to the JSON-union fragment, the JSON-union
\* fragment, integer, number, array-of-integer and number.
C8_PrecedenceStableAsClaimed ==
    type_result # NotCalled =>
        /\ Named(<<"J", "S", "O", "N", "B">>) => type_result = CustomType(JsonUnionType)
        /\ Named(<<"J", "S", "O", "N">>) => type_result = CustomType(JsonUnionType)
        /\ Named(<<"I", "N", "T", "E", "G", "E", "R">>) => type_result = IntegerType
        /\ Named(<<"D", "O", "U", "B", "L", "E", " ", "P", "R", "E", "C", "I", "S", "I", "O", "N">>) => type_result = NumberType
        /\ Named(<<"_", "i", "n", "t", "4">>) => type_result = ArrayType(IntegerType)
        /\ Named(<<"N", "U", "M", "E", "R", "I", "C", "(", "1", "0", ",", "2", ")">>) => type_result = NumberType

\* C8 (amended): the six names map to the JSON-union fragment, the
\* JSON-union fragment, integer, number, integer and number: a type name is
\* never wrapped as an array, "_int4" contains "int".  Only an ARRAY
\* descriptor is wrapped: ARRAY(INTEGER) maps to array-of-integer.
C8_PrecedenceStable ==
    type_result # NotCalled =>
        /\ Named(<<"J", "S", "O", "N", "B">>) => type_result = CustomType(JsonUnionType)
        /\ Named(<<"J", "S", "O", "N">>) => type_result = CustomType(JsonUnionType)
        /\ Named(<<"I", "N", "T", "E", "G", "E", "R">>) => type_result = IntegerType
        /\ Named(<<"D", "O", "U", "B", "L", "E", " ", "P", "R", "E", "C", "I", "S", "I", "O", "N">>) => type_result = NumberType
        /\ Named(<<"_", "i", "n", "t", "4">>) => type_result = IntegerType
        /\ Named(<<"N", "U", "M", "E", "R", "I", "C", "(", "1", "0", ",", "2", ")">>) => type_result = NumberType
        /\ type_call.sql_type = ArrayInstance(TypeInstance(<<"I", "N", "T", "E", "G", "E", "R">>))
              => type_result = ArrayType(IntegerType)

C8_Witness ==
    /\ Named(<<"_", "i", "n", "t", "4">>)
    /\ type_result = IntegerType

=============================================================================
